---- MODULE Spec2Model ----
(***************************************************************************)
(* The calculator engine of src/src/components/Calculator.tsx: the four    *)
(* useState cells (display, previousValue, operation, waitingForOperand)   *)
(* and the handlers that update them, one action per handler.              *)
(*                                                                         *)
(* display is a sequence of one-character strings.  Numbers are IEEE-754   *)
(* doubles in the code; here a number is NaN, a decimal m / 10^e kept in   *)
(* lowest terms (m not a multiple of 10 unless e = 0), or Untracked: a     *)
(* finite double whose shortest decimal rendering the model does not       *)
(* follow (an inexact binary result such as 0.1 + 0.2, a quotient that     *)
(* does not terminate, a value beyond MaxMant / MaxFrac).  The handlers    *)
(* are followed only while their results stay tracked.  -0 and 0 are one   *)
(* value: String(-0) is "0" and -0 !== 0 is false, and the code observes   *)
(* a number in no other way.                                               *)
(*                                                                         *)
(* Spec, EngineSpec, SeqSpec and ChainSpec apply each handler to the       *)
(* current cells.  ReactSpec adds what the component keeps between         *)
(* renders: the cells each useCallback closure holds and the keydown       *)
(* listeners on window.  A closure is written down only where it differs   *)
(* from the current cells: closures maps each callback of the latest       *)
(* render whose closure holds other values than the cells to the values    *)
(* it holds, and each listener maps the callbacks it calls likewise.  The  *)
(* cleanup of the effect removes the listener its run added, which is the  *)
(* last of listeners while the component is mounted.                       *)
(***************************************************************************)
EXTENDS Integers, Sequences, FiniteSets, TLC

VARIABLES display, previousValue, operation, waitingForOperand, last, pre, typed,
          mounted, closures, listeners

vars == <<display, previousValue, operation, waitingForOperand, last, pre, typed,
          mounted, closures, listeners>>

\* ---------------------------------------------------------------- bounds
\* Longest display the digit and decimal-point keys may still extend.
MaxLen == 3
\* Largest mantissa and most fractional digits of a tracked number.
MaxMant == 25
MaxFrac == 2
\* Longest key sequence recorded since the last clear (SeqSpec).
MaxTyped == 6
\* Longest key sequence recorded since the last clear (ChainSpec).
MaxChain == 7

\* Keys offered to the engine: a subset of the ten digit buttons.
Digits == {"0", "5"}
SeqDigits == {"0", "2", "3", "4"}
ChainDigits == {"0", "2", "3"}
ReactDigits == {"5"}

\* ------------------------------------------------------------- numbers
\* null in a string-typed cell (operation), and in the number-typed previousValue.
Null == "null"
NullValue == [kind |-> "null", m |-> 0, e |-> 0]

NaN == [kind |-> "NaN", m |-> 0, e |-> 0]
Untracked == [kind |-> "untracked", m |-> 0, e |-> 0]

Abs(n) == IF n < 0 THEN -n ELSE n
Max(a, b) == IF a < b THEN b ELSE a

RECURSIVE Pow10(_)
Pow10(n) == IF n = 0 THEN 1 ELSE 10 * Pow10(n - 1)

RECURSIVE Pow5(_)
Pow5(n) == IF n = 0 THEN 1 ELSE 5 * Pow5(n - 1)

RECURSIVE Normalize(_, _)
Normalize(m, e) ==
    IF e > 0 /\ m % 10 = 0 THEN Normalize(m \div 10, e - 1)
    ELSE [kind |-> "num", m |-> m, e |-> e]

Num(n) == [kind |-> "num", m |-> n, e |-> 0]

IsNaN(x) == x.kind = "NaN"
IsTracked(x) == x.kind # "untracked"
InDomain(x) == x.kind = "NaN" \/ (x.kind = "num" /\ Abs(x.m) <= MaxMant /\ x.e <= MaxFrac)

\* A decimal m / 10^e is a double exactly iff 5^e divides m (the magnitudes
\* of the model are far below 2^53).
BinaryExact(x) == x.kind = "num" /\ x.m % Pow5(x.e) = 0

\* Clip(x): x when the model tracks it, Untracked otherwise.
Clip(x) == IF InDomain(x) THEN x ELSE Untracked

\* x === y and x !== 0 of the code, on tracked numbers: NaN equals nothing.
NumEq(x, y) == x.kind = "num" /\ y.kind = "num" /\ x = y
NonZero(x) == ~(x.kind = "num" /\ x.m = 0)

Neg(x) == IF x.kind = "num" THEN [x EXCEPT !.m = -x.m] ELSE x

\* a + b, a - b, a * b: exact on doubles when both operands are exact and the
\* result is small, and always when one operand is 0 (sum) or 0, 1, -1
\* (product); a NaN operand gives NaN.
Plus(a, b) ==
    IF IsNaN(a) \/ IsNaN(b) THEN NaN
    ELSE IF ~IsTracked(a) \/ ~IsTracked(b) THEN Untracked
    ELSE IF b.m = 0 THEN a
    ELSE IF a.m = 0 THEN b
    ELSE IF ~(BinaryExact(a) /\ BinaryExact(b)) THEN Untracked
    ELSE LET k == Max(a.e, b.e)
         IN  Clip(Normalize(a.m * Pow10(k - a.e) + b.m * Pow10(k - b.e), k))

Minus(a, b) == Plus(a, Neg(b))

Times(a, b) ==
    IF IsNaN(a) \/ IsNaN(b) THEN NaN
    ELSE IF ~IsTracked(a) \/ ~IsTracked(b) THEN Untracked
    ELSE IF b = Num(1) \/ a.m = 0 THEN a
    ELSE IF a = Num(1) \/ b.m = 0 THEN b
    ELSE IF b = Num(-1) THEN Neg(a)
    ELSE IF a = Num(-1) THEN Neg(b)
    ELSE IF ~(BinaryExact(a) /\ BinaryExact(b)) THEN Untracked
    ELSE Clip(Normalize(a.m * b.m, a.e + b.e))

\* a / b for b # 0: the correctly rounded quotient of two exact doubles, whose
\* shortest rendering is the quotient itself when that is a short decimal.
Quotient(a, b) ==
    IF IsNaN(a) \/ IsNaN(b) THEN NaN
    ELSE IF ~IsTracked(a) \/ ~IsTracked(b) \/ b.m = 0 THEN Untracked
    ELSE IF b = Num(1) THEN a
    ELSE IF b = Num(-1) THEN Neg(a)
    ELSE IF ~(BinaryExact(a) /\ BinaryExact(b)) THEN Untracked
    ELSE LET s == IF (a.m < 0) = (b.m < 0) THEN 1 ELSE -1
             n == Abs(a.m) * Pow10(b.e)
             d == Abs(b.m) * Pow10(a.e)
             ks == {k \in 0..MaxFrac : (n * Pow10(k)) % d = 0}
         IN  IF ks = {} THEN Untracked
             ELSE LET k == CHOOSE j \in ks : \A i \in ks : j <= i
                  IN  Clip(Normalize(s * ((n * Pow10(k)) \div d), k))

\* ------------------------------------------------- String and parseFloat
DigitChars == <<"0", "1", "2", "3", "4", "5", "6", "7", "8", "9">>
IsDigit(c) == \E i \in 1..10 : DigitChars[i] = c
DigitVal(c) == (CHOOSE i \in 1..10 : DigitChars[i] = c) - 1

RECURSIVE DigitsOf(_)
DigitsOf(n) ==
    IF n < 10 THEN <<DigitChars[n + 1]>>
    ELSE Append(DigitsOf(n \div 10), DigitChars[(n % 10) + 1])

RECURSIVE PadLeft(_, _)
PadLeft(s, n) == IF Len(s) >= n THEN s ELSE PadLeft(<<"0">> \o s, n)

\* String(x): the shortest decimal rendering, "NaN" for NaN.  Numbers of the
\* model lie in [1e-6, 1e21), where the rendering has no exponent.  "?" marks
\* the rendering of an untracked number; no followed state holds it.
String(x) ==
    IF IsNaN(x) THEN <<"N", "a", "N">>
    ELSE IF ~IsTracked(x) THEN <<"?">>
    ELSE LET sign == IF x.m < 0 THEN <<"-">> ELSE <<>>
             ds == PadLeft(DigitsOf(Abs(x.m)), x.e + 1)
             n == Len(ds)
         IN  IF x.e = 0 THEN sign \o ds
             ELSE sign \o SubSeq(ds, 1, n - x.e) \o <<".">> \o SubSeq(ds, n - x.e + 1, n)

RECURSIVE TakeDigits(_)
TakeDigits(s) ==
    IF s # <<>> /\ IsDigit(Head(s)) THEN <<Head(s)>> \o TakeDigits(Tail(s)) ELSE <<>>

RECURSIVE ToInt(_)
ToInt(s) == IF s = <<>> THEN 0 ELSE 10 * ToInt(SubSeq(s, 1, Len(s) - 1)) + DigitVal(s[Len(s)])

\* parseFloat(s): the longest prefix of s that is a decimal literal (optional
\* sign, digits, optional point and digits), NaN when that prefix holds no
\* digit.  No display of the model holds an exponent or "Infinity".
parseFloat(s) ==
    LET signed == s # <<>> /\ Head(s) \in {"-", "+"}
        body == IF signed THEN Tail(s) ELSE s
        ip == TakeDigits(body)
        rest == SubSeq(body, Len(ip) + 1, Len(body))
        fp == IF rest # <<>> /\ Head(rest) = "." THEN TakeDigits(Tail(rest)) ELSE <<>>
        mag == ToInt(ip \o fp)
    IN  IF ip = <<>> /\ fp = <<>> THEN NaN
        ELSE Normalize(IF signed /\ Head(s) = "-" THEN -mag ELSE mag, Len(fp))

Includes(s, c) == \E i \in 1..Len(s) : s[i] = c

\* ------------------------------------------------------------ the engine
\* "*" and "/" stand for the multiply and divide signs of the source.
Operations == {"+", "-", "*", "/"}

State ==
    [display |-> display, previousValue |-> previousValue,
     operation |-> operation, waitingForOperand |-> waitingForOperand]

InitialState ==
    [display |-> <<"0">>, previousValue |-> NullValue,
     operation |-> Null, waitingForOperand |-> FALSE]

\* inputDigit that appends to a display of "0" too.
inputDigitAlwaysAppends(s, digit) ==
    IF s.waitingForOperand
    THEN [s EXCEPT !.display = <<digit>>, !.waitingForOperand = FALSE]
    ELSE [s EXCEPT !.display = Append(s.display, digit)]

inputDigit(s, digit) ==
    IF s.waitingForOperand
    THEN [s EXCEPT !.display = <<digit>>, !.waitingForOperand = FALSE]
    ELSE [s EXCEPT !.display = IF s.display = <<"0">> THEN <<digit>>
                                ELSE Append(s.display, digit)]

\* inputDecimal without the includes test.
inputDecimalAlwaysAppends(s) ==
    IF s.waitingForOperand
    THEN [s EXCEPT !.display = <<"0", ".">>, !.waitingForOperand = FALSE]
    ELSE [s EXCEPT !.display = Append(s.display, ".")]

\* inputDecimal that starts the fresh operand but leaves the waiting flag set.
inputDecimalKeepsWaiting(s) ==
    IF s.waitingForOperand
    THEN [s EXCEPT !.display = <<"0", ".">>]
    ELSE IF ~Includes(s.display, ".")
         THEN [s EXCEPT !.display = Append(s.display, ".")]
         ELSE s

inputDecimal(s) ==
    IF s.waitingForOperand
    THEN [s EXCEPT !.display = <<"0", ".">>, !.waitingForOperand = FALSE]
    ELSE IF ~Includes(s.display, ".")
         THEN [s EXCEPT !.display = Append(s.display, ".")]
         ELSE s

\* clear without its last setter.
clearKeepsWaiting(s) ==
    [s EXCEPT !.display = <<"0">>, !.previousValue = NullValue, !.operation = Null]

clear(s) ==
    [s EXCEPT !.display = <<"0">>, !.previousValue = NullValue,
              !.operation = Null, !.waitingForOperand = FALSE]

\* backspace without the length test: the last character is always sliced off.
backspaceAlwaysSlices(s) ==
    IF s.waitingForOperand THEN s
    ELSE [s EXCEPT !.display = SubSeq(s.display, 1, Len(s.display) - 1)]

\* backspace without its early return.
backspaceIgnoresWaiting(s) ==
    [s EXCEPT !.display = IF Len(s.display) = 1 THEN <<"0">>
                           ELSE SubSeq(s.display, 1, Len(s.display) - 1)]

backspace(s) ==
    IF s.waitingForOperand THEN s
    ELSE [s EXCEPT !.display = IF Len(s.display) = 1 THEN <<"0">>
                                ELSE SubSeq(s.display, 1, Len(s.display) - 1)]

\* toggleSign that also ends the wait for an operand.
toggleSignClearsWaiting(s) ==
    LET value == parseFloat(s.display)
    IN  [s EXCEPT !.display = String(Times(value, Num(-1))),
                  !.waitingForOperand = FALSE]

toggleSign(s) ==
    LET value == parseFloat(s.display)
    IN  [s EXCEPT !.display = String(Times(value, Num(-1)))]

inputPercent(s) ==
    LET value == parseFloat(s.display)
    IN  [s EXCEPT !.display = String(Quotient(value, Num(100)))]

\* The switch of performOperation: result starts as currentValue.
performOperationResult(op, currentValue, inputValue) ==
    CASE op = "+" -> Plus(currentValue, inputValue)
      [] op = "-" -> Minus(currentValue, inputValue)
      [] op = "*" -> Times(currentValue, inputValue)
      [] op = "/" -> IF NonZero(inputValue) THEN Quotient(currentValue, inputValue)
                     ELSE Num(0)
      [] OTHER -> currentValue

\* performOperation without setWaitingForOperand(true).
performOperationKeepsWaiting(s, nextOperation) ==
    LET inputValue == parseFloat(s.display)
        result == performOperationResult(s.operation, s.previousValue, inputValue)
        t == IF s.previousValue = NullValue
             THEN [s EXCEPT !.previousValue = inputValue]
             ELSE IF s.operation # Null
                  THEN [s EXCEPT !.display = String(result), !.previousValue = result]
                  ELSE s
    IN  [t EXCEPT !.operation = nextOperation]

\* performOperation that only replaces the pending operator while no operand
\* has been entered since the last operator.
performOperationReplacesOperator(s, nextOperation) ==
    LET inputValue == parseFloat(s.display)
        result == performOperationResult(s.operation, s.previousValue, inputValue)
        t == IF s.previousValue = NullValue
             THEN [s EXCEPT !.previousValue = inputValue]
             ELSE IF s.operation # Null /\ ~s.waitingForOperand
                  THEN [s EXCEPT !.display = String(result), !.previousValue = result]
                  ELSE s
    IN  [t EXCEPT !.waitingForOperand = TRUE, !.operation = nextOperation]

\* performOperation that shows the chained result but keeps the old left operand.
performOperationKeepsPrevious(s, nextOperation) ==
    LET inputValue == parseFloat(s.display)
        result == performOperationResult(s.operation, s.previousValue, inputValue)
        t == IF s.previousValue = NullValue
             THEN [s EXCEPT !.previousValue = inputValue]
             ELSE IF s.operation # Null
                  THEN [s EXCEPT !.display = String(result)]
                  ELSE s
    IN  [t EXCEPT !.waitingForOperand = TRUE, !.operation = nextOperation]

performOperation(s, nextOperation) ==
    LET inputValue == parseFloat(s.display)
        result == performOperationResult(s.operation, s.previousValue, inputValue)
        t == IF s.previousValue = NullValue
             THEN [s EXCEPT !.previousValue = inputValue]
             ELSE IF s.operation # Null
                  THEN [s EXCEPT !.display = String(result), !.previousValue = result]
                  ELSE s
    IN  [t EXCEPT !.waitingForOperand = TRUE, !.operation = nextOperation]

\* The switch of calculate without the zero test: dividing by zero leaves
\* result at its initial value, previousValue.
calculateResultNoZeroCase(op, prev, inputValue) ==
    CASE op = "+" -> Plus(prev, inputValue)
      [] op = "-" -> Minus(prev, inputValue)
      [] op = "*" -> Times(prev, inputValue)
      [] op = "/" -> IF NonZero(inputValue) THEN Quotient(prev, inputValue)
                     ELSE prev
      [] OTHER -> prev

\* The switch of calculate with the operands of "-" exchanged.
calculateResultSwapped(op, prev, inputValue) ==
    CASE op = "+" -> Plus(prev, inputValue)
      [] op = "-" -> Minus(inputValue, prev)
      [] op = "*" -> Times(prev, inputValue)
      [] op = "/" -> IF NonZero(inputValue) THEN Quotient(prev, inputValue)
                     ELSE Num(0)
      [] OTHER -> prev

\* The switch of calculate: result starts as previousValue.
calculateResult(op, prev, inputValue) ==
    CASE op = "+" -> Plus(prev, inputValue)
      [] op = "-" -> Minus(prev, inputValue)
      [] op = "*" -> Times(prev, inputValue)
      [] op = "/" -> IF NonZero(inputValue) THEN Quotient(prev, inputValue)
                     ELSE Num(0)
      [] OTHER -> prev

\* calculate that leaves the left operand in previousValue.
calculateKeepsPrevious(s) ==
    IF s.operation = Null \/ s.previousValue = NullValue THEN s
    ELSE LET inputValue == parseFloat(s.display)
             result == calculateResult(s.operation, s.previousValue, inputValue)
         IN  [s EXCEPT !.display = String(result), !.operation = Null,
                       !.waitingForOperand = TRUE]

\* calculate without its last setter: the waiting flag is left as it was.
calculateKeepsWaiting(s) ==
    IF s.operation = Null \/ s.previousValue = NullValue THEN s
    ELSE LET inputValue == parseFloat(s.display)
             result == calculateResult(s.operation, s.previousValue, inputValue)
         IN  [s EXCEPT !.display = String(result), !.previousValue = NullValue,
                       !.operation = Null]

\* calculate that leaves the operation pending.
calculateKeepsOperation(s) ==
    IF s.operation = Null \/ s.previousValue = NullValue THEN s
    ELSE LET inputValue == parseFloat(s.display)
             result == calculateResult(s.operation, s.previousValue, inputValue)
         IN  [s EXCEPT !.display = String(result), !.previousValue = NullValue,
                       !.waitingForOperand = TRUE]

calculate(s) ==
    IF s.operation = Null \/ s.previousValue = NullValue THEN s
    ELSE LET inputValue == parseFloat(s.display)
             result == calculateResult(s.operation, s.previousValue, inputValue)
         IN  [s EXCEPT !.display = String(result), !.previousValue = NullValue,
                       !.operation = Null, !.waitingForOperand = TRUE]

\* ------------------------------------------------- closures and listeners
Fields == {"display", "previousValue", "operation", "waitingForOperand"}

Callbacks ==
    {"inputDigit", "inputDecimal", "clear", "backspace", "toggleSign",
     "inputPercent", "performOperation", "calculate"}

\* The dependency list of a useCallback that leaves display out of inputDigit's.
DepsWithoutDisplay(f) ==
    CASE f = "inputDigit" -> {"waitingForOperand"}
      [] f = "inputDecimal" -> {"display", "waitingForOperand"}
      [] f = "clear" -> {}
      [] f = "backspace" -> {"display", "waitingForOperand"}
      [] f = "toggleSign" -> {"display"}
      [] f = "inputPercent" -> {"display"}
      [] f = "performOperation" -> {"display", "previousValue", "operation"}
      [] f = "calculate" -> {"display", "previousValue", "operation"}

\* The dependency list of each useCallback.
Deps(f) ==
    CASE f = "inputDigit" -> {"display", "waitingForOperand"}
      [] f = "inputDecimal" -> {"display", "waitingForOperand"}
      [] f = "clear" -> {}
      [] f = "backspace" -> {"display", "waitingForOperand"}
      [] f = "toggleSign" -> {"display"}
      [] f = "inputPercent" -> {"display"}
      [] f = "performOperation" -> {"display", "previousValue", "operation"}
      [] f = "calculate" -> {"display", "previousValue", "operation"}

\* The cells the body of each callback reads.
Reads(f) ==
    CASE f = "inputDigit" -> {"waitingForOperand", "display"}
      [] f = "inputDecimal" -> {"waitingForOperand", "display"}
      [] f = "clear" -> {}
      [] f = "backspace" -> {"waitingForOperand", "display"}
      [] f = "toggleSign" -> {"display"}
      [] f = "inputPercent" -> {"display"}
      [] f = "performOperation" -> {"display", "previousValue", "operation"}
      [] f = "calculate" -> {"operation", "previousValue", "display"}

\* The dependency list of the effect, which are also the callbacks
\* handleKeyDown calls.
EffectDeps ==
    {"inputDigit", "inputDecimal", "performOperation", "calculate", "clear",
     "backspace", "inputPercent"}

Handler(f, arg, s) ==
    CASE f = "inputDigit" -> inputDigit(s, arg)
      [] f = "inputDecimal" -> inputDecimal(s)
      [] f = "clear" -> clear(s)
      [] f = "backspace" -> backspace(s)
      [] f = "toggleSign" -> toggleSign(s)
      [] f = "inputPercent" -> inputPercent(s)
      [] f = "performOperation" -> performOperation(s, arg)
      [] f = "calculate" -> calculate(s)

\* The cells whose setter callback f calls when it runs on the snapshot s.
Writes(f, s) ==
    CASE f = "inputDigit" ->
            IF s.waitingForOperand THEN {"display", "waitingForOperand"} ELSE {"display"}
      [] f = "inputDecimal" ->
            IF s.waitingForOperand THEN {"display", "waitingForOperand"}
            ELSE IF ~Includes(s.display, ".") THEN {"display"} ELSE {}
      [] f = "clear" -> Fields
      [] f = "backspace" -> IF s.waitingForOperand THEN {} ELSE {"display"}
      [] f = "toggleSign" -> {"display"}
      [] f = "inputPercent" -> {"display"}
      [] f = "performOperation" ->
            IF s.previousValue = NullValue
            THEN {"previousValue", "waitingForOperand", "operation"}
            ELSE IF s.operation # Null THEN Fields
            ELSE {"waitingForOperand", "operation"}
      [] f = "calculate" ->
            IF s.operation = Null \/ s.previousValue = NullValue THEN {} ELSE Fields

\* The closure of callback f created by a render that sees s: the values of
\* the cells its body refers to.
Capture(f, s) == [x \in Reads(f) |-> s[x]]

\* Callback f with the closure snap, called while the cells are cur: every
\* setter it calls gets a value computed from snap.
RunClosure(f, arg, snap, cur) ==
    LET seen == [x \in Fields |-> IF x \in Reads(f) THEN snap[x] ELSE cur[x]]
        out == Handler(f, arg, seen)
    IN  [x \in Fields |-> IF x \in Writes(f, seen) THEN out[x] ELSE cur[x]]

\* The closure of callback f that cl records while the cells are s.
Closure(cl, f, s) == IF f \in DOMAIN cl THEN cl[f] ELSE Capture(f, s)

\* The record of the closures held, one for each callback, while the cells
\* are s.
Differing(held, s) ==
    [f \in {g \in DOMAIN held : held[g] # Capture(g, s)} |-> held[f]]

\* The first render: every closure holds the initial cells.
MountClosures == [f \in {} |-> InitialState]

\* useCallback at a render that sees new after one that saw old: a callback
\* is created anew, closing over new, when one of its dependencies changed,
\* and is the callback of the render before otherwise.
DepsChanged(f, old, new) == \E x \in Deps(f) : old[x] # new[x]

useCallback(cl, old, new) ==
    Differing([f \in Callbacks |->
                  IF DepsChanged(f, old, new) THEN Capture(f, new)
                  ELSE Closure(cl, f, old)], new)

\* handleKeyDown as a render defines it: the callbacks it closes over.
handleKeyDown(cl) == [f \in DOMAIN cl \cap EffectDeps |-> cl[f]]

\* The listeners that stay on window while the cells go from old to new.
Registered(ls, old, new) ==
    [i \in 1..Len(ls) |->
        Differing([f \in EffectDeps |-> Closure(ls[i], f, old)], new)]

addEventListener(ls, h) == Append(ls, h)

\* Removes the listener at position i, the function object passed to it.
removeEventListener(ls, i) ==
    [k \in 1..(Len(ls) - 1) |-> IF k < i THEN ls[k] ELSE ls[k + 1]]

\* An effect that returns no cleanup.
useEffectWithoutCleanup(ls) == ls

\* The cleanup the effect returns: it removes the listener its run added.
useEffectCleanup(ls) == removeEventListener(ls, Len(ls))

\* The key bindings of handleKeyDown; "none" for a key it ignores.
KeyBinding(key) ==
    IF IsDigit(key) THEN [name |-> "inputDigit", arg |-> key]
    ELSE IF key = "." THEN [name |-> "inputDecimal", arg |-> Null]
    ELSE IF key = "+" \/ key = "-" THEN [name |-> "performOperation", arg |-> key]
    ELSE IF key = "*" THEN [name |-> "performOperation", arg |-> "*"]
    ELSE IF key = "/" THEN [name |-> "performOperation", arg |-> "/"]
    ELSE IF key = "Enter" \/ key = "=" THEN [name |-> "calculate", arg |-> Null]
    ELSE IF key = "Escape" THEN [name |-> "clear", arg |-> Null]
    ELSE IF key = "Backspace" THEN [name |-> "backspace", arg |-> Null]
    ELSE IF key = "%" THEN [name |-> "inputPercent", arg |-> Null]
    ELSE [name |-> "none", arg |-> Null]

\* A keydown event while the cells are s: every listener on window runs, each
\* with the callbacks it closed over; the updates are applied together at the
\* next render.
RECURSIVE Dispatch(_, _, _, _)
Dispatch(ls, key, s, cur) ==
    IF ls = <<>> THEN cur
    ELSE LET b == KeyBinding(key)
             next == IF b.name = "none" THEN cur
                     ELSE RunClosure(b.name, b.arg, Closure(Head(ls), b.name, s), cur)
         IN  Dispatch(Tail(ls), key, s, next)

\* ------------------------------------------------------------ behaviours
\* The states the model follows: every number in them is tracked.
InModel(s) ==
    /\ s.display # String(Untracked)
    /\ s.previousValue # Untracked

\* The digit and decimal-point keys are followed while the display they
\* extend is shorter than MaxLen.
CanType == waitingForOperand \/ Len(display) < MaxLen

SetCells(s) ==
    /\ InModel(s)
    /\ display' = s.display
    /\ previousValue' = s.previousValue
    /\ operation' = s.operation
    /\ waitingForOperand' = s.waitingForOperand

\* A handler applied to the cells as they are, the closures being those of
\* the latest render.
Commit(s) ==
    /\ SetCells(s)
    /\ UNCHANGED <<mounted, closures, listeners>>

\* last and pre remember the latest event and the state it was applied to.
Observe(name, arg) ==
    /\ last' = [name |-> name, arg |-> arg]
    /\ pre' = State
    /\ UNCHANGED typed

Init ==
    /\ display = InitialState.display
    /\ previousValue = InitialState.previousValue
    /\ operation = InitialState.operation
    /\ waitingForOperand = InitialState.waitingForOperand
    /\ last = [name |-> "mount", arg |-> Null]
    /\ pre = InitialState
    /\ typed = <<>>
    /\ mounted = TRUE
    /\ closures = MountClosures
    /\ listeners = <<handleKeyDown(MountClosures)>>

Next ==
    \/ \E d \in Digits : CanType /\ Commit(inputDigit(State, d)) /\ Observe("inputDigit", d)
    \/ CanType /\ Commit(inputDecimal(State)) /\ Observe("inputDecimal", Null)
    \/ Commit(clear(State)) /\ Observe("clear", Null)
    \/ Commit(backspace(State)) /\ Observe("backspace", Null)
    \/ Commit(toggleSign(State)) /\ Observe("toggleSign", Null)
    \/ Commit(inputPercent(State)) /\ Observe("inputPercent", Null)
    \/ \E op \in Operations :
          Commit(performOperation(State, op)) /\ Observe("performOperation", op)
    \/ Commit(calculate(State)) /\ Observe("calculate", Null)

Spec == Init /\ [][Next]_vars

\* SeqSpec: the keys pressed since the last clear are recorded in typed, and
\* form the start of  operand (operator operand)* "="  with operands typed as
\* digits.
IsDigitKey(k) == k \in SeqDigits
LastKey == IF typed = <<>> THEN "" ELSE typed[Len(typed)]

Log(key) ==
    /\ Len(typed) < MaxTyped
    /\ typed' = Append(typed, key)
    /\ UNCHANGED <<last, pre>>

SeqNext ==
    \/ \E d \in SeqDigits :
          /\ LastKey # "="
          /\ CanType /\ Commit(inputDigit(State, d)) /\ Log(d)
    \/ \E op \in Operations :
          /\ IsDigitKey(LastKey)
          /\ Commit(performOperation(State, op)) /\ Log(op)
    \/ /\ IsDigitKey(LastKey)
       /\ \E i \in 1..Len(typed) : typed[i] \in Operations
       /\ Commit(calculate(State)) /\ Log("=")
    \/ Commit(clear(State)) /\ typed' = <<>> /\ UNCHANGED <<last, pre>>

SeqSpec == Init /\ [][SeqNext]_vars

\* ChainSpec: as SeqSpec, with the keys going on after "=": an operator may
\* follow "=" directly, and "=" follows an operand typed after an operator.
OperatorSinceEquals ==
    \E i \in 1..Len(typed) :
        /\ typed[i] \in Operations
        /\ \A j \in i..Len(typed) : typed[j] # "="

ChainLog(key) ==
    /\ Len(typed) < MaxChain
    /\ typed' = Append(typed, key)
    /\ UNCHANGED <<last, pre>>

ChainNext ==
    \/ \E d \in ChainDigits :
          /\ LastKey # "="
          /\ CanType /\ Commit(inputDigit(State, d)) /\ ChainLog(d)
    \/ \E op \in Operations :
          /\ LastKey \in ChainDigits \cup {"="}
          /\ Commit(performOperation(State, op)) /\ ChainLog(op)
    \/ /\ LastKey \in ChainDigits
       /\ OperatorSinceEquals
       /\ Commit(calculate(State)) /\ ChainLog("=")
    \/ Commit(clear(State)) /\ typed' = <<>> /\ UNCHANGED <<last, pre>>

ChainSpec == Init /\ [][ChainNext]_vars

\* EngineSpec: the same events as Spec with only the latest event kept, not
\* the state before it, so that each state of the cells is met once for every
\* event that leads to it.
Seen(name, arg) ==
    /\ last' = [name |-> name, arg |-> arg]
    /\ UNCHANGED <<pre, typed>>

EngineNext ==
    \/ \E d \in Digits : CanType /\ Commit(inputDigit(State, d)) /\ Seen("inputDigit", d)
    \/ CanType /\ Commit(inputDecimal(State)) /\ Seen("inputDecimal", Null)
    \/ Commit(clear(State)) /\ Seen("clear", Null)
    \/ Commit(backspace(State)) /\ Seen("backspace", Null)
    \/ Commit(toggleSign(State)) /\ Seen("toggleSign", Null)
    \/ Commit(inputPercent(State)) /\ Seen("inputPercent", Null)
    \/ \E op \in Operations :
          Commit(performOperation(State, op)) /\ Seen("performOperation", op)
    \/ Commit(calculate(State)) /\ Seen("calculate", Null)

EngineSpec == Init /\ [][EngineNext]_vars

\* ReactSpec: the events reach the handlers through the closures of the
\* render before them.  A click calls the callback of the latest render; a
\* key calls the listeners on window.  The updates of an event are flushed,
\* the component rendered and its effect run before the next event.  typed
\* holds the key of the latest event when it came from the keyboard; pre is
\* not kept.
\* The keys pressed and the operator buttons clicked are a part of those the
\* code binds, one per arm of handleKeyDown that differs; "a" is a key it
\* ignores.
Keys ==
    ReactDigits \cup {".", "+", "/", "Enter", "Escape", "Backspace", "%", "a"}

ReactOperations == {"+", "/"}

Clicks ==
    {[name |-> "inputDigit", arg |-> d] : d \in ReactDigits}
        \cup {[name |-> "performOperation", arg |-> op] : op \in ReactOperations}
        \cup {[name |-> f, arg |-> Null] :
                 f \in Callbacks \ {"inputDigit", "performOperation"}}

IsTyping(b) == b.name \in {"inputDigit", "inputDecimal"}

\* The render after an event that left the cells at s, and its effect.
Render(s) ==
    LET cl == useCallback(closures, State, s)
        rerun == \E f \in EffectDeps : DepsChanged(f, State, s)
    IN  /\ SetCells(s)
        /\ closures' = cl
        /\ listeners' = IF rerun
                        THEN addEventListener(
                                 Registered(useEffectCleanup(listeners), State, s),
                                 handleKeyDown(cl))
                        ELSE Registered(listeners, State, s)
        /\ UNCHANGED mounted

Click(c) ==
    /\ mounted
    /\ IsTyping(c) => CanType
    /\ \E s \in {RunClosure(c.name, c.arg, Closure(closures, c.name, State), State)} : Render(s)
    /\ last' = c
    /\ pre' = pre
    /\ typed' = <<>>

KeyDown(key) ==
    /\ mounted
    /\ IsTyping(KeyBinding(key)) => CanType
    /\ \E s \in {Dispatch(listeners, key, State, State)} : Render(s)
    /\ last' = IF listeners = <<>> THEN [name |-> "none", arg |-> Null]
               ELSE KeyBinding(key)
    /\ pre' = pre
    /\ typed' = <<key>>

\* A key pressed while no component is mounted reaches whatever listeners
\* are left on window; no cell is there to update.
KeyDownUnmounted(key) ==
    /\ ~mounted
    /\ last' = IF listeners = <<>> THEN [name |-> "none", arg |-> Null]
               ELSE [name |-> "leaked", arg |-> Null]
    /\ typed' = <<key>>
    /\ UNCHANGED <<display, previousValue, operation, waitingForOperand, pre,
                   mounted, closures, listeners>>

\* Unmounting runs the effect's cleanup and discards the cells; the model
\* holds the initial values the next mount starts from.
Unmount ==
    /\ mounted
    /\ mounted' = FALSE
    /\ listeners' = Registered(useEffectCleanup(listeners), State, InitialState)
    /\ SetCells(InitialState)
    /\ closures' = MountClosures
    /\ last' = [name |-> "unmount", arg |-> Null]
    /\ pre' = pre
    /\ typed' = <<>>

Mount ==
    /\ ~mounted
    /\ mounted' = TRUE
    /\ SetCells(InitialState)
    /\ closures' = MountClosures
    /\ listeners' = addEventListener(listeners, handleKeyDown(MountClosures))
    /\ last' = [name |-> "mount", arg |-> Null]
    /\ pre' = pre
    /\ typed' = <<>>

ReactNext ==
    \/ \E c \in Clicks : Click(c)
    \/ \E key \in Keys : KeyDown(key)
    \/ \E key \in Keys : KeyDownUnmounted(key)
    \/ Unmount
    \/ Mount

ReactSpec == Init /\ [][ReactNext]_vars

\* ---------------------------------------------------------------- claims
\* C1: whatever state the engine has reached, a clear() leaves exactly the
\* initial state: display "0", no previousValue, no operation, not waiting
\* for an operand.
ClearYieldsInitialState == last.name = "clear" => State = InitialState

\* clear() has just run on a state with a pending operation, a display other
\* than "0" and the waiting flag set.
ClearFromBusyState ==
    /\ last.name = "clear"
    /\ pre.operation # Null
    /\ pre.previousValue # NullValue
    /\ pre.display # <<"0">>
    /\ pre.waitingForOperand

\* The reading of a recorded key sequence: where its operators stand, and the
\* number each run of digits between them denotes.
OpAt == {i \in 1..Len(typed) : typed[i] \in Operations}
NthOp(n) == CHOOSE i \in OpAt : Cardinality({j \in OpAt : j <= i}) = n
Operand(from, to) == Num(ToInt(SubSeq(typed, from, to)))

\* apply(op, a, b) of the specification: a+b, a-b, a*b, and b != 0 ? a/b : 0.
Apply(op, a, b) ==
    IF op = "+" THEN Plus(a, b)
    ELSE IF op = "-" THEN Minus(a, b)
    ELSE IF op = "*" THEN Times(a, b)
    ELSE IF NonZero(b) THEN Quotient(a, b) ELSE Num(0)

\* C2: after clear, typing the digits of a, an operator op, the digits of b
\* and "=" leaves display = render(apply(op, a, b)).
BinaryExpressionResult ==
    (LastKey = "=" /\ Cardinality(OpAt) = 1) =>
        LET i == NthOp(1)
            a == Operand(1, i - 1)
            b == Operand(i + 1, Len(typed) - 1)
        IN  display = String(Apply(typed[i], a, b))

\* "24" "-" "20" "=" has been typed and the display shows "4".
BinaryExpressionTyped ==
    /\ typed = <<"2", "4", "-", "2", "0", "=">>
    /\ display = <<"4">>
    /\ operation = Null /\ previousValue = NullValue

\* C3: operators chained without "=" are evaluated left to right with no
\* precedence: a op1 b op2 c "=" leaves render(apply(op2, apply(op1, a, b), c)),
\* and render(apply(op1, a, b)) is on the display right after op2 is pressed.
ChainedLeftToRight ==
    /\ (LastKey = "=" /\ Cardinality(OpAt) = 2) =>
          LET i == NthOp(1)
              j == NthOp(2)
              a == Operand(1, i - 1)
              b == Operand(i + 1, j - 1)
              c == Operand(j + 1, Len(typed) - 1)
          IN  display = String(Apply(typed[j], Apply(typed[i], a, b), c))
    /\ (LastKey \in Operations /\ Cardinality(OpAt) = 2) =>
          LET i == NthOp(1)
              j == NthOp(2)
              a == Operand(1, i - 1)
              b == Operand(i + 1, j - 1)
          IN  display = String(Apply(typed[i], a, b))

\* "2" "+" "3" "*" "4" "=" has been typed and the display shows "20", not "14".
ChainedExpressionTyped ==
    /\ typed = <<"2", "+", "3", "*", "4", "=">>
    /\ display = <<"2", "0">>

\* Leading zeros dropped, the last character kept.
RECURSIVE Collapse(_)
Collapse(s) == IF Len(s) > 1 /\ Head(s) = "0" THEN Collapse(Tail(s)) ELSE s

\* C8: while only digits have been typed since clear, display is the digits
\* typed with redundant leading zeros collapsed: "0" when only zeros were
\* typed, and never a zero in front of another digit.
DigitsConcatenate ==
    (typed # <<>> /\ \A i \in 1..Len(typed) : IsDigitKey(typed[i])) =>
        display = Collapse(typed)

\* "0" "0" "2" "0" "3" has been typed and the display shows "203".
LeadingZerosTyped ==
    /\ typed = <<"0", "0", "2", "0", "3">>
    /\ display = <<"2", "0", "3">>

\* C4: when the pending operation is divide and the display parses to 0,
\* calculate() and a chaining performOperation() both produce 0: the display
\* becomes "0", never an error, Infinity or NaN.
DivideByZeroYieldsZero ==
    (/\ last.name \in {"calculate", "performOperation"}
     /\ pre.operation = "/"
     /\ pre.previousValue # NullValue
     /\ ~NonZero(parseFloat(pre.display))) => display = <<"0">>

\* "=" has just been pressed on 5 / 0.
FiveDividedByZero ==
    /\ last.name = "calculate"
    /\ pre.operation = "/"
    /\ pre.previousValue = Num(5)
    /\ pre.display = <<"0">>
    /\ display = <<"0">>

\* C5: operation is absent exactly when previousValue is absent.
OperationIffPreviousValue == (operation = Null) <=> (previousValue = NullValue)

\* An operator press has set both, and an equals press has cleared both.
BothSetThenBothCleared ==
    /\ last.name = "calculate"
    /\ pre.operation # Null /\ pre.previousValue # NullValue
    /\ operation = Null /\ previousValue = NullValue

\* C6: display always parses to a finite number (a trailing decimal point
\* aside): never a bare sign, an empty string, "NaN" or "Infinity".
DisplayParsesToNumber == display # <<>> /\ ~IsNaN(parseFloat(display))

DecimalPoints(s) == Cardinality({i \in 1..Len(s) : s[i] = "."})

\* C7: display holds at most one decimal point.
AtMostOneDecimalPoint == DecimalPoints(display) <= 1

\* The decimal-point key has just been pressed on a display that already
\* held a point.
SecondDecimalPointPressed ==
    /\ last.name = "inputDecimal"
    /\ ~pre.waitingForOperand
    /\ DecimalPoints(pre.display) = 1
    /\ DecimalPoints(display) = 1

\* C9: inputDecimal() is idempotent on the whole state: a second call right
\* after the first changes nothing; and when waitingForOperand is set the
\* first call makes the display "0." and clears the flag.
InputDecimalIdempotent ==
    /\ inputDecimal(inputDecimal(State)) = inputDecimal(State)
    /\ waitingForOperand =>
          /\ inputDecimal(State).display = <<"0", ".">>
          /\ ~inputDecimal(State).waitingForOperand

\* The decimal-point key has been pressed while waiting for an operand, and a
\* further press would change nothing.
DecimalPointAfterOperator ==
    /\ last.name = "inputDecimal"
    /\ pre.waitingForOperand
    /\ display = <<"0", ".">>
    /\ inputDecimal(State) = State

\* C10: toggleSign() applied twice returns display to a string with the
\* numeric value it had before.
ToggleSignTwiceRestoresValue ==
    NumEq(parseFloat(toggleSign(toggleSign(State)).display), parseFloat(display))

\* C11: calculate() changes nothing when operation or previousValue is
\* absent; otherwise it sets display to
\* render(apply(operation, previousValue, parse(display))), clears
\* previousValue and operation, and sets waitingForOperand.
CalculateEffect ==
    last.name = "calculate" =>
        IF pre.operation = Null \/ pre.previousValue = NullValue
        THEN State = pre
        ELSE /\ display = String(Apply(pre.operation, pre.previousValue,
                                       parseFloat(pre.display)))
             /\ previousValue = NullValue
             /\ operation = Null
             /\ waitingForOperand

\* "=" has just been pressed on 5 + 5 with the second operand typed.
CalculateApplied ==
    /\ last.name = "calculate"
    /\ pre.operation = "+"
    /\ pre.previousValue = Num(5)
    /\ pre.display = <<"5">>
    /\ ~pre.waitingForOperand
    /\ display = <<"1", "0">>

\* C12: backspace() changes nothing while waitingForOperand is set;
\* otherwise it removes exactly the last character of display, and leaves
\* "0" when nothing would remain.
BackspaceEffect ==
    last.name = "backspace" =>
        IF pre.waitingForOperand THEN State = pre
        ELSE /\ display = IF Len(pre.display) <= 1 THEN <<"0">>
                          ELSE SubSeq(pre.display, 1, Len(pre.display) - 1)
             /\ previousValue = pre.previousValue
             /\ operation = pre.operation
             /\ waitingForOperand = pre.waitingForOperand

\* Backspace has just been pressed on a result the engine was showing while
\* waiting for an operand.
BackspaceWhileWaiting ==
    /\ last.name = "backspace"
    /\ pre.waitingForOperand
    /\ pre.display = <<"1", "0">>
    /\ display = <<"1", "0">>

\* C13 as stated: waitingForOperand is set right after every operator press
\* and every equals press.
WaitingAfterOperatorOrEquals ==
    last.name \in {"performOperation", "calculate"} => waitingForOperand

\* C13, amended: waitingForOperand is set right after every operator press
\* and after every equals press made with an operation and a previousValue
\* pending; and a digit pressed while it is set replaces the display.
WaitingAfterOperatorOrPendingEquals ==
    /\ last.name = "performOperation" => waitingForOperand
    /\ (last.name = "calculate" /\ pre.operation # Null /\ pre.previousValue # NullValue)
          => waitingForOperand
    /\ (last.name = "inputDigit" /\ pre.waitingForOperand)
          => display = <<last.arg>> /\ ~waitingForOperand

\* A digit has just been pressed after an operator, on a display of several
\* characters.
DigitAfterOperator ==
    /\ last.name = "inputDigit"
    /\ pre.waitingForOperand
    /\ pre.operation # Null
    /\ Len(pre.display) > 1
    /\ display = <<last.arg>>

\* C16: with previousValue and operation present, performOperation(next)
\* applies the pending operation to (previousValue, parse(display)) and stores
\* the result in display and previousValue, whether or not waitingForOperand
\* is set; in every case it sets operation = next and waitingForOperand.
PerformOperationEffect ==
    last.name = "performOperation" =>
        /\ operation = last.arg
        /\ waitingForOperand
        /\ (pre.previousValue # NullValue /\ pre.operation # Null) =>
              LET result == Apply(pre.operation, pre.previousValue,
                                  parseFloat(pre.display))
              IN  display = String(result) /\ previousValue = result

\* An operator has been pressed twice in a row on 5: the second press added
\* the displayed 5 to the stored 5.
OperatorPressedTwice ==
    /\ last.name = "performOperation"
    /\ pre.waitingForOperand
    /\ pre.operation = "+"
    /\ pre.previousValue = Num(5)
    /\ pre.display = <<"5">>
    /\ display = <<"1", "0">>
    /\ previousValue = Num(10)

\* C19: inputDigit, inputDecimal, backspace, toggleSign and inputPercent
\* leave previousValue and operation as they were, and toggleSign and
\* inputPercent leave waitingForOperand as it was too.
EditingKeysFrame ==
    /\ last.name \in {"inputDigit", "inputDecimal", "backspace", "toggleSign", "inputPercent"}
          => previousValue = pre.previousValue /\ operation = pre.operation
    /\ last.name \in {"toggleSign", "inputPercent"}
          => waitingForOperand = pre.waitingForOperand

\* The sign has just been toggled while waiting for an operand after an
\* operator: the flag is still set, so the next digit replaces "-5".
ToggleSignWhileWaiting ==
    /\ last.name = "toggleSign"
    /\ pre.waitingForOperand
    /\ pre.operation # Null
    /\ display = <<"-", "5">>
    /\ waitingForOperand

\* C20: right after any performOperation, previousValue equals the numeric
\* value of display, operation is present and waitingForOperand is set.
PreviousValueIsDisplayed ==
    last.name = "performOperation" =>
        /\ NumEq(previousValue, parseFloat(display))
        /\ operation # Null
        /\ waitingForOperand

\* Where "=" stands in the recorded keys.
EqualsAt == {i \in 1..Len(typed) : typed[i] = "="}

\* The keys read  a op1 b "=" op2 ...  : one "=" before the last key, one
\* operator before it and one right after it.
ChainedAfterEquals ==
    /\ Cardinality(OpAt) = 2
    /\ Cardinality(EqualsAt \ {Len(typed)}) = 1
    /\ LET e == CHOOSE i \in EqualsAt : i < Len(typed)
       IN  NthOp(1) < e /\ NthOp(2) = e + 1

\* C14: after calculate() has produced r, performOperation(op) captures r as
\* previousValue, sets operation = op and computes nothing (the display still
\* shows r); an operand b and calculate() then yield render(apply(op, r, b)).
ResultChainsAfterEquals ==
    ChainedAfterEquals =>
        LET i == NthOp(1)
            j == NthOp(2)
            r == Apply(typed[i], Operand(1, i - 1), Operand(i + 1, j - 2))
        IN  /\ LastKey \in Operations =>
                 /\ previousValue = r
                 /\ operation = typed[j]
                 /\ display = String(r)
            /\ LastKey = "=" =>
                 display = String(Apply(typed[j], r, Operand(j + 1, Len(typed) - 1)))

\* "2" "+" "3" "=" "*" "3" "=" has been typed and the display shows "15".
ResultChainTyped ==
    /\ typed = <<"2", "+", "3", "=", "*", "3", "=">>
    /\ display = <<"1", "5">>

\* A state of the four cells as the code can hold it.
Characters == {DigitChars[i] : i \in 1..10} \cup {".", "-", "N", "a", "?"}
WellFormed(s) ==
    /\ s.display # <<>>
    /\ \A i \in 1..Len(s.display) : s.display[i] \in Characters
    /\ s.previousValue = NullValue \/ s.previousValue.kind \in {"num", "NaN", "untracked"}
    /\ s.operation \in Operations \cup {Null}
    /\ s.waitingForOperand \in BOOLEAN

\* C15: every engine operation is total: in every reachable state each
\* handler, with each of its arguments, yields a well-formed next state.
HandlersTotal ==
    /\ WellFormed(State)
    /\ \A d \in Digits : WellFormed(inputDigit(State, d))
    /\ WellFormed(inputDecimal(State))
    /\ WellFormed(clear(State))
    /\ WellFormed(backspace(State))
    /\ WellFormed(toggleSign(State))
    /\ WellFormed(inputPercent(State))
    /\ \A op \in Operations : WellFormed(performOperation(State, op))
    /\ WellFormed(calculate(State))

\* toggleSign has acted with an operation pending and the display has become
\* "NaN"; clear still leads out of it.
HandlersOnNaN ==
    /\ display = <<"N", "a", "N">>
    /\ operation # Null
    /\ last.name = "toggleSign"
    /\ WellFormed(clear(State))

\* C17: events are applied one at a time in arrival order, each to the state
\* produced by all earlier events: whichever callback an event reaches, by a
\* button or by the keydown listener, the cells after the event are those the
\* handler computes from the cells just before it, and the closures of every
\* callback and of every listener hold the current cells, none a stale one.
EventsAppliedToCurrentState ==
    /\ [](mounted =>
            /\ \A f \in Callbacks : Closure(closures, f, State) = Capture(f, State)
            /\ \A i \in 1..Len(listeners) :
                   \A f \in EffectDeps :
                       Closure(listeners[i], f, State) = Capture(f, State))
    /\ [][(mounted /\ mounted' /\ last'.name \in Callbacks) =>
              State' = Handler(last'.name, last'.arg, State)]_vars

\* The key "5" pressed twice: the second press has been handled by the
\* listener subscribed after the first, and appended to its digit.
SecondKeyAppended ==
    /\ mounted
    /\ typed = <<"5">>
    /\ last = [name |-> "inputDigit", arg |-> "5"]
    /\ display = <<"5", "5">>
    /\ Len(listeners) = 1
    /\ Closure(listeners[1], "inputDigit", State).display = <<"5", "5">>

\* C18: the keyboard subscription is scoped: while the widget is mounted
\* exactly one keydown listener is registered; after unmount none is, and no
\* key is handled after teardown.
SubscriptionScoped ==
    /\ mounted => Len(listeners) = 1
    /\ ~mounted => listeners = <<>> /\ last.name # "leaked"

\* A key has been handled by a listener other than the one added at mount,
\* and that listener is the only one registered.
Resubscribed ==
    /\ mounted
    /\ typed # <<>>
    /\ last.name \in Callbacks
    /\ Len(listeners) = 1
    /\ Closure(listeners[1], "inputDigit", State) # Capture("inputDigit", InitialState)

====
